---- MODULE Spec2Model ----
(***************************************************************************)
(* Model of the text-to-speech dispatch of the AI journalist backend:      *)
(*   - generate_news_audio (backend.py): acquisition, summarisation, the   *)
(*     Speechify call and its ElevenLabs fallback, and the response;       *)
(*   - filter_voice_models (test_speechify_simple.py): the voice filter.   *)
(* The provider adapters of utils.py are modelled from their contracts:    *)
(* as outcomes of one call in the handler's model, and step by step        *)
(* (credential, request, answer, decoding, file) for their own callers.    *)
(***************************************************************************)
EXTENDS Integers, Sequences, FiniteSets, TLC

\* ------------------------------------------------------------------ bounds
\* Number of requests served concurrently by the application.
NumReq == 1
\* Number of callers of the adapters that run concurrently.
NumCallers == 2
\* Last reading of the clock.
MaxTime == 1
\* Longest voice list handed to the filter.
MaxVoices == 2

VARIABLES
    env,          \* process environment: which provider credentials are set
    pc,           \* per request: position inside generate_news_audio
    source_type,  \* per request: request.source_type
    results,      \* per request: keys of the results dict
    news_summary, \* per request: text returned by generate_broadcast_news
    audio_path,   \* per request: the local audio_path
    raised,       \* per request: the exception that reached the outer except
    response,     \* per request: what the endpoint answered
    calls,        \* per request: log of the collaborators invoked, in order
    failures,     \* per request: log of the failures of provider calls
    outputs,      \* per request: log of the audio the provider calls returned
    printed,      \* per request: what the handler printed
    fs,           \* the output directory: path -> bytes
    net,          \* log of the network calls made to the providers
    voices,       \* filter: the voice list
    f_gender,     \* filter: the gender argument
    f_locale,     \* filter: the locale argument
    f_tags,       \* filter: the tags argument
    f_results,    \* filter: the returned list of model names
    f_pc,         \* filter: "build" while the list is built, "called" after the call
    now,          \* adapters: the clock the file names are stamped with
    a_pc,         \* per caller: where its adapter call stands
    a_call,       \* per caller: the adapter called and the arguments given
    a_sent,       \* per caller: the requests the provider received
    a_audio,      \* per caller: the audio the provider synthesized
    a_payload,    \* per caller: the provider's answer as it arrived
    a_path,       \* per caller: the path the adapter returned
    a_exc         \* per caller: the exception the adapter raised

dvars == <<env, pc, source_type, results, news_summary, audio_path, raised,
           response, calls, failures, outputs, printed, fs, net>>
fvars == <<voices, f_gender, f_locale, f_tags, f_results, f_pc>>
avars == <<now, a_pc, a_call, a_sent, a_audio, a_payload, a_path, a_exc>>
\* What the handler keeps for itself; env and fs are shared with the adapters.
hvars == <<pc, source_type, results, news_summary, audio_path, raised,
           response, calls, failures, outputs, printed, net>>
vars == <<dvars, fvars, avars>>

Reqs == 1..NumReq

\* ------------------------------------------------------------ plain values
SourceTypes == {"news", "reddit", "both", "none"}
Summaries == {"summary-a", "summary-b"}
\* Audio payloads a provider can deliver (raw bytes).
AudioBytes == {<<1>>, <<2, 3>>}

NoExc == [type |-> "none", msg |-> ""]
NoPath == [dir |-> "", prefix |-> "", req |-> 0, ext |-> ""]
NoResponse == [status |-> 0, media |-> "", body |-> <<>>, detail |-> ""]

\* Python's exception classes that occur here, each with the classes it is a
\* subclass of (itself included).
Bases(type) ==
    CASE type = "ValueError" -> {"ValueError", "Exception"}
      [] type = "IOError" -> {"IOError", "Exception"}
      [] type = "Exception" -> {"Exception"}
      [] OTHER -> {}

\* Faulty variants of the except clause: "except ValueError", and a clause that
\* lets IOError through.
CatchesOnlyValueError(exc) == "ValueError" \in Bases(exc.type)
CatchesNoIOError(exc) == Bases(exc.type) \cap {"ValueError", "Exception"} # {} /\ exc.type # "IOError"

\* except (ValueError, Exception) as e: the classes the inner handler names.
Catches(exc) == Bases(exc.type) \cap {"ValueError", "Exception"} # {}

\* ------------------------------------------------- provider adapters (utils)
\* The file an adapter call of request r writes and the handler reads back. The
\* handler makes the call and reads the file without awaiting in between, so no
\* other request of the process touches the file from its writing to its
\* reading, and here it is identified by request and provider. The names the
\* adapters give their files, and what callers do to each other's files, are
\* modelled with the adapters further down.
AudioFile(prefix, r, fmt) == [dir |-> "audio", prefix |-> prefix, req |-> r, ext |-> fmt]

\* Faulty variant of the primary adapter: the provider is called before the
\* credential is looked at.
SpeechifyCallsBeforeKeyCheck(e) ==
    IF ~e.SPEECHIFY_API_KEY
    THEN {[ok |-> FALSE, kind |-> "ConfigError", netcall |-> TRUE, bytes |-> <<>>,
           exc |-> [type |-> "ValueError", msg |-> "Speechify API key is required"]]}
    ELSE {[ok |-> TRUE, kind |-> "ok", netcall |-> TRUE, bytes |-> b, exc |-> NoExc]
          : b \in AudioBytes}

\* Outcomes of text_to_audio_speechify for a process environment e: the
\* credential is checked first; then the remote call either fails or answers
\* with audio; then the decoded audio is written.
\*   netcall: whether the provider was called; bytes: what was persisted.
SpeechifyOutcomes(e) ==
    IF ~e.SPEECHIFY_API_KEY
    THEN {[ok |-> FALSE, kind |-> "ConfigError", netcall |-> FALSE, bytes |-> <<>>,
           exc |-> [type |-> "ValueError", msg |-> "Speechify API key is required"]]}
    ELSE {[ok |-> FALSE, kind |-> "ProviderError", netcall |-> TRUE, bytes |-> <<>>,
           exc |-> [type |-> "Exception", msg |-> "API Error"]],
          [ok |-> FALSE, kind |-> "IOError", netcall |-> TRUE, bytes |-> <<>>,
           exc |-> [type |-> "IOError", msg |-> "speechify write failed"]]}
         \cup {[ok |-> TRUE, kind |-> "ok", netcall |-> TRUE, bytes |-> b, exc |-> NoExc]
               : b \in AudioBytes}

\* Outcomes of text_to_audio_elevenlabs_sdk, likewise.
ElevenLabsOutcomes(e) ==
    IF ~e.ELEVEN_API_KEY
    THEN {[ok |-> FALSE, kind |-> "ConfigError", netcall |-> FALSE, bytes |-> <<>>,
           exc |-> [type |-> "ValueError", msg |-> "ElevenLabs API key is required"]]}
    ELSE {[ok |-> FALSE, kind |-> "ProviderError", netcall |-> TRUE, bytes |-> <<>>,
           exc |-> [type |-> "Exception", msg |-> "ElevenLabs API Error"]],
          [ok |-> FALSE, kind |-> "IOError", netcall |-> TRUE, bytes |-> <<>>,
           exc |-> [type |-> "IOError", msg |-> "elevenlabs write failed"]]}
         \cup {[ok |-> TRUE, kind |-> "ok", netcall |-> TRUE, bytes |-> b, exc |-> NoExc]
               : b \in AudioBytes}

\* The output directory after path p has been written with bytes b.
WriteFile(dir, p, b) == [q \in DOMAIN dir \cup {p} |-> IF q = p THEN b ELSE dir[q]]

\* The network log after a provider call (or without one).
NetAfter(log, o, provider, r) ==
    IF o.netcall THEN Append(log, [provider |-> provider, req |-> r]) ELSE log

\* --------------------------------------------------- generate_news_audio
Call(op, text) == [op |-> op, text |-> text]

\* Faulty variant: the news scraper runs for every source type.
ScrapesNewsAlways(st) == TRUE

\* request.source_type in ["news", "both"]
WantsNews(st) == st \in {"news", "both"}

\* request.source_type in ["reddit", "both"]
WantsReddit(st) == st \in {"reddit", "both"}

\* if request.source_type in ["news", "both"]: await news_scraper.scrape_news
ScrapeNews(r) ==
    /\ pc[r] = "start"
    /\ IF WantsNews(source_type[r])
       THEN /\ calls' = [calls EXCEPT ![r] = Append(@, Call("scrape_news", ""))]
            /\ \E ok \in BOOLEAN :
                 IF ok
                 THEN /\ results' = [results EXCEPT ![r] = @ \cup {"news"}]
                      /\ pc' = [pc EXCEPT ![r] = "reddit"]
                      /\ UNCHANGED raised
                 ELSE /\ raised' = [raised EXCEPT ![r] = [type |-> "Exception", msg |-> "scrape_news failed"]]
                      /\ pc' = [pc EXCEPT ![r] = "except"]
                      /\ UNCHANGED results
       ELSE /\ pc' = [pc EXCEPT ![r] = "reddit"]
            /\ UNCHANGED <<calls, results, raised>>
    /\ UNCHANGED <<env, source_type, news_summary, audio_path, response, failures, outputs, printed, fs, net>>
    /\ UNCHANGED <<fvars, avars>>

\* if request.source_type in ["reddit", "both"]: await scrape_reddit_topics
ScrapeReddit(r) ==
    /\ pc[r] = "reddit"
    /\ IF WantsReddit(source_type[r])
       THEN /\ calls' = [calls EXCEPT ![r] = Append(@, Call("scrape_reddit_topics", ""))]
            /\ \E ok \in BOOLEAN :
                 IF ok
                 THEN /\ results' = [results EXCEPT ![r] = @ \cup {"reddit"}]
                      /\ pc' = [pc EXCEPT ![r] = "summarize"]
                      /\ UNCHANGED raised
                 ELSE /\ raised' = [raised EXCEPT ![r] = [type |-> "Exception", msg |-> "scrape_reddit_topics failed"]]
                      /\ pc' = [pc EXCEPT ![r] = "except"]
                      /\ UNCHANGED results
       ELSE /\ pc' = [pc EXCEPT ![r] = "summarize"]
            /\ UNCHANGED <<calls, results, raised>>
    /\ UNCHANGED <<env, source_type, news_summary, audio_path, response, failures, outputs, printed, fs, net>>
    /\ UNCHANGED <<fvars, avars>>

\* news_summary = generate_broadcast_news(...)
Summarize(r) ==
    /\ pc[r] = "summarize"
    /\ calls' = [calls EXCEPT ![r] = Append(@, Call("generate_broadcast_news", ""))]
    /\ \/ \E s \in Summaries :
            /\ news_summary' = [news_summary EXCEPT ![r] = s]
            /\ pc' = [pc EXCEPT ![r] = "primary"]
            /\ UNCHANGED raised
       \/ /\ raised' = [raised EXCEPT ![r] = [type |-> "Exception", msg |-> "generate_broadcast_news failed"]]
          /\ pc' = [pc EXCEPT ![r] = "except"]
          /\ UNCHANGED news_summary
    /\ UNCHANGED <<env, source_type, results, audio_path, response, failures, outputs, printed, fs, net>>
    /\ UNCHANGED <<fvars, avars>>

\* Faulty variant: the fallback call follows the try block instead of sitting
\* in its except clause.
AlwaysFallsBack(o) == "secondary"

\* Faulty variant: a failed primary call is tried again.
RetriesPrimary(o) == IF o.ok THEN "respond" ELSE "primary"

\* Where control goes after the try block around text_to_audio_speechify:
\* past the try on success; into the inner except, whose body is the fallback
\* call, when the exception is one the except clause names; otherwise out to
\* the outer except.
AfterPrimary(o) ==
    IF o.ok THEN "respond"
    ELSE IF Catches(o.exc) THEN "secondary"
    ELSE "except"

\* try: audio_path = text_to_audio_speechify(text=news_summary, ...)
\* except (ValueError, Exception) as e: print(...), then the fallback call
CallSpeechify(r) ==
    /\ pc[r] = "primary"
    /\ calls' = [calls EXCEPT ![r] = Append(@, Call("text_to_audio_speechify", news_summary[r]))]
    /\ \E o \in SpeechifyOutcomes(env) :
         /\ net' = NetAfter(net, o, "speechify", r)
         /\ pc' = [pc EXCEPT ![r] = AfterPrimary(o)]
         /\ IF o.ok
            THEN /\ fs' = WriteFile(fs, AudioFile("speechify_tts", r, "mp3"), o.bytes)
                 /\ audio_path' = [audio_path EXCEPT ![r] = AudioFile("speechify_tts", r, "mp3")]
                 /\ outputs' = [outputs EXCEPT ![r] = Append(@, [provider |-> "speechify", bytes |-> o.bytes])]
                 /\ UNCHANGED failures
            ELSE /\ failures' = [failures EXCEPT ![r] = Append(@, [provider |-> "speechify", kind |-> o.kind, exc |-> o.exc])]
                 /\ UNCHANGED <<fs, audio_path, outputs>>
         /\ printed' = [printed EXCEPT ![r] =
                          IF AfterPrimary(o) = "secondary" THEN Append(@, o.exc.msg) ELSE @]
         /\ raised' = [raised EXCEPT ![r] =
                          IF AfterPrimary(o) = "except" THEN o.exc ELSE @]
    /\ UNCHANGED <<env, source_type, results, news_summary, response>>
    /\ UNCHANGED <<fvars, avars>>

\* Faulty variant: a failed fallback call is made again.
RetriesSecondary(o) == IF o.ok THEN "respond" ELSE "secondary"

\* Where control goes after the fallback call: on to the response when it
\* returned, out to the outer except when it raised; there is no third provider
\* and no loop.
AfterSecondary(o) == IF o.ok THEN "respond" ELSE "except"

\* audio_path = text_to_audio_elevenlabs_sdk(text=news_summary, ...) inside the
\* inner except: a failure here propagates to the outer except.
CallElevenLabs(r) ==
    /\ pc[r] = "secondary"
    /\ calls' = [calls EXCEPT ![r] = Append(@, Call("text_to_audio_elevenlabs_sdk", news_summary[r]))]
    /\ \E o \in ElevenLabsOutcomes(env) :
         /\ net' = NetAfter(net, o, "elevenlabs", r)
         /\ pc' = [pc EXCEPT ![r] = AfterSecondary(o)]
         /\ IF o.ok
            THEN /\ fs' = WriteFile(fs, AudioFile("tts", r, "mp3"), o.bytes)
                 /\ audio_path' = [audio_path EXCEPT ![r] = AudioFile("tts", r, "mp3")]
                 /\ outputs' = [outputs EXCEPT ![r] = Append(@, [provider |-> "elevenlabs", bytes |-> o.bytes])]
                 /\ UNCHANGED <<failures, raised>>
            ELSE /\ failures' = [failures EXCEPT ![r] = Append(@, [provider |-> "elevenlabs", kind |-> o.kind, exc |-> o.exc])]
                 /\ raised' = [raised EXCEPT ![r] = o.exc]
                 /\ UNCHANGED <<fs, audio_path, outputs>>
    /\ UNCHANGED <<env, source_type, results, news_summary, response, printed>>
    /\ UNCHANGED <<fvars, avars>>

\* Faulty variant: the test on audio_path is inverted, the function returns None.
ReturnsNothing(path, dir) == [status |-> 200, media |-> "null", body |-> <<>>, detail |-> ""]

\* if audio_path and Path(audio_path).exists(): return Response(content=audio_bytes,
\* media_type="audio/mpeg"); otherwise the function falls off its end and returns None.
ResponseFor(path, dir) ==
    IF path # NoPath /\ path \in DOMAIN dir
    THEN [status |-> 200, media |-> "audio/mpeg", body |-> dir[path], detail |-> ""]
    ELSE [status |-> 200, media |-> "null", body |-> <<>>, detail |-> ""]

Respond(r) ==
    /\ pc[r] = "respond"
    /\ response' = [response EXCEPT ![r] = ResponseFor(audio_path[r], fs)]
    /\ pc' = [pc EXCEPT ![r] = "done"]
    /\ UNCHANGED <<env, source_type, results, news_summary, audio_path, raised, calls, failures, outputs, printed, fs, net>>
    /\ UNCHANGED <<fvars, avars>>

\* Faulty variant: the outer except swallows the exception and returns None.
SwallowsException(exc) == [status |-> 200, media |-> "null", body |-> <<>>, detail |-> ""]

\* except Exception as e: raise HTTPException(status_code=500, detail=str(e))
ErrorResponse(exc) == [status |-> 500, media |-> "", body |-> <<>>, detail |-> exc.msg]

HandleException(r) ==
    /\ pc[r] = "except"
    /\ response' = [response EXCEPT ![r] = ErrorResponse(raised[r])]
    /\ pc' = [pc EXCEPT ![r] = "done"]
    /\ UNCHANGED <<env, source_type, results, news_summary, audio_path, raised, calls, failures, outputs, printed, fs, net>>
    /\ UNCHANGED <<fvars, avars>>

\* ---------------------------------------------------- filter_voice_models
\* An optional keyword argument: some = FALSE is Python's None.
None(empty) == [some |-> FALSE, val |-> empty]
Some(v) == [some |-> TRUE, val |-> v]
\* Python truthiness of an argument: None, "" and [] are all false.
Truthy(arg, empty) == arg.some /\ arg.val # empty

\* str.lower() on the letters used here; a string is a sequence of characters.
LowerChar(c) ==
    CASE c = "M" -> "m"
      [] c = "A" -> "a"
      [] c = "F" -> "f"
      [] c = "E" -> "e"
      [] OTHER -> c
Lower(s) == [i \in 1..Len(s) |-> LowerChar(s[i])]

\* Faulty variant: only voice.models[0] is looked at.
OnlyFirstModelHasLocale(voice, locale) ==
    /\ Len(voice.models) > 0
    /\ \E j \in 1..Len(voice.models[1].languages) : voice.models[1].languages[j].locale = locale

\* any(any(lang.locale == locale for lang in model.languages) for model in voice.models)
AnyModelHasLocale(voice, locale) ==
    \E i \in 1..Len(voice.models) :
        \E j \in 1..Len(voice.models[i].languages) :
            voice.models[i].languages[j].locale = locale

\* Faulty variant: the requested gender is compared as given.
GenderRequestNotLowered(voice, gender) ==
    Truthy(gender, <<>>) /\ Lower(voice.gender) # gender.val

\* gender and voice.gender.lower() != gender.lower()
GenderMismatch(voice, gender) ==
    Truthy(gender, <<>>) /\ Lower(voice.gender) # Lower(gender.val)

\* Faulty variant: any() in place of all().
TagsAnyInsteadOfAll(voice, tags) ==
    Truthy(tags, {}) /\ ~(\E tag \in tags.val : tag \in voice.tags)

\* tags and not all(tag in voice.tags for tag in tags)
TagsMismatch(voice, tags) ==
    Truthy(tags, {}) /\ ~(\A tag \in tags.val : tag \in voice.tags)

\* Faulty variant: an if/elif chain, so only the first supplied criterion is tested.
QualifiesFirstCriterionOnly(voice, gender, locale, tags) ==
    IF Truthy(gender, <<>>) THEN ~GenderMismatch(voice, gender)
    ELSE IF Truthy(locale, "") THEN AnyModelHasLocale(voice, locale.val)
    ELSE ~TagsMismatch(voice, tags)

\* The body of the loop before the append: a voice is skipped (continue) by the
\* first failing test among gender, locale and tags.
Qualifies(voice, gender, locale, tags) ==
    /\ ~GenderMismatch(voice, gender)
    /\ ~(Truthy(locale, "") /\ ~AnyModelHasLocale(voice, locale.val))
    /\ ~TagsMismatch(voice, tags)

\* Faulty variant: one name per qualifying voice, that of its first model.
FirstModelNameOnly(voice) ==
    IF voice.models = <<>> THEN <<>> ELSE <<voice.models[1].name>>

\* for model in voice.models: results.append(model.name)
ModelNames(voice) == [i \in 1..Len(voice.models) |-> voice.models[i].name]

RECURSIVE filter_voice_models(_, _, _, _)
filter_voice_models(vs, gender, locale, tags) ==
    IF vs = <<>>
    THEN <<>>
    ELSE (IF Qualifies(Head(vs), gender, locale, tags) THEN ModelNames(Head(vs)) ELSE <<>>)
         \o filter_voice_models(Tail(vs), gender, locale, tags)

\* Inputs of the filter.
Model(name, locales) == [name |-> name, languages |-> [i \in 1..Len(locales) |-> [locale |-> locales[i]]]]
ModelLists ==
    { <<>>,
      <<Model("n1", <<>>)>>,
      <<Model("n1", <<"fr-FR">>), Model("n2", <<"en-us", "en-US">>)>>,
      <<Model("n3", <<"en-us">>)>> }
VoiceGenders == {<<"M", "a">>, <<"f", "e">>}
VoiceTagSets == {{"accent:american"}, {"timbre:deep", "accent:american"}}
VoicePool == [gender : VoiceGenders, tags : VoiceTagSets, models : ModelLists]

GenderArgs == {None(<<>>), Some(<<>>), Some(<<"m", "a">>), Some(<<"M", "A">>), Some(<<"f", "e">>)}
LocaleArgs == {None(""), Some(""), Some("en-US")}
TagArgs == {None({}), Some({}), Some({"timbre:deep"}), Some({"timbre:deep", "accent:american"})}

\* The caller builds the voice list (the provider's catalogue), one voice at a time.
AddVoice(v) ==
    /\ f_pc = "build"
    /\ Len(voices) < MaxVoices
    /\ voices' = Append(voices, v)
    /\ UNCHANGED <<f_gender, f_locale, f_tags, f_results, f_pc>>
    /\ UNCHANGED <<dvars, avars>>

\* filter_voice_models(voices, gender=g, locale=l, tags=t)
CallFilter(g, l, t) ==
    /\ f_pc = "build"
    /\ f_gender' = g
    /\ f_locale' = l
    /\ f_tags' = t
    /\ f_results' = filter_voice_models(voices, g, l, t)
    /\ f_pc' = "called"
    /\ UNCHANGED voices
    /\ UNCHANGED <<dvars, avars>>

\* ------------------------------------------- the adapters, step by step
\* text_to_audio_speechify and text_to_audio_elevenlabs_sdk as their callers and
\* their providers see them: the credential check, the request handed to the
\* provider, the provider's answer, its decoding, and the file written.
Callers == 1..NumCallers

\* The base64 alphabet, and the padding character.
B64Alphabet ==
    <<"A", "B", "C", "D", "E", "F", "G", "H", "I", "J", "K", "L", "M", "N", "O", "P",
      "Q", "R", "S", "T", "U", "V", "W", "X", "Y", "Z", "a", "b", "c", "d", "e", "f",
      "g", "h", "i", "j", "k", "l", "m", "n", "o", "p", "q", "r", "s", "t", "u", "v",
      "w", "x", "y", "z", "0", "1", "2", "3", "4", "5", "6", "7", "8", "9", "+", "/">>
B64Pad == "="
B64Char(sextet) == B64Alphabet[sextet + 1]
B64Value(ch) == (CHOOSE i \in DOMAIN B64Alphabet : B64Alphabet[i] = ch) - 1

\* base64.b64encode(audio).decode(): three bytes become four characters, a last
\* group of one or two bytes is padded.
RECURSIVE B64Encode(_)
B64Encode(bytes) ==
    IF bytes = <<>> THEN <<>>
    ELSE IF Len(bytes) = 1
    THEN <<B64Char(bytes[1] \div 4), B64Char((bytes[1] % 4) * 16), B64Pad, B64Pad>>
    ELSE IF Len(bytes) = 2
    THEN <<B64Char(bytes[1] \div 4), B64Char((bytes[1] % 4) * 16 + bytes[2] \div 16),
           B64Char((bytes[2] % 16) * 4), B64Pad>>
    ELSE <<B64Char(bytes[1] \div 4), B64Char((bytes[1] % 4) * 16 + bytes[2] \div 16),
           B64Char((bytes[2] % 16) * 4 + bytes[3] \div 64), B64Char(bytes[3] % 64)>>
         \o B64Encode(SubSeq(bytes, 4, Len(bytes)))

\* Faulty variant: a padded group is decoded to three bytes, the padding as zeros.
RECURSIVE B64DecodePaddingAsZeros(_)
B64DecodePaddingAsZeros(text) ==
    IF Len(text) < 4 THEN <<>>
    ELSE LET v(i) == IF text[i] = B64Pad THEN 0 ELSE B64Value(text[i])
         IN <<v(1) * 4 + v(2) \div 16, (v(2) % 16) * 16 + v(3) \div 4, (v(3) % 4) * 64 + v(4)>>
            \o B64DecodePaddingAsZeros(SubSeq(text, 5, Len(text)))

\* Faulty variant: only the first group of four characters is decoded.
B64DecodeFirstGroupOnly(text) ==
    IF Len(text) < 4 THEN <<>>
    ELSE LET v(i) == B64Value(text[i])
         IN IF text[3] = B64Pad THEN <<v(1) * 4 + v(2) \div 16>>
            ELSE IF text[4] = B64Pad
            THEN <<v(1) * 4 + v(2) \div 16, (v(2) % 16) * 16 + v(3) \div 4>>
            ELSE <<v(1) * 4 + v(2) \div 16, (v(2) % 16) * 16 + v(3) \div 4, (v(3) % 4) * 64 + v(4)>>

\* base64.b64decode(audio_response.audio_data): four characters become three
\* bytes, a padded group one or two.
RECURSIVE B64Decode(_)
B64Decode(text) ==
    IF Len(text) < 4 THEN <<>>
    ELSE LET v(i) == B64Value(text[i])
         IN (IF text[3] = B64Pad THEN <<v(1) * 4 + v(2) \div 16>>
             ELSE IF text[4] = B64Pad
             THEN <<v(1) * 4 + v(2) \div 16, (v(2) % 16) * 16 + v(3) \div 4>>
             ELSE <<v(1) * 4 + v(2) \div 16, (v(2) % 16) * 16 + v(3) \div 4, (v(3) % 4) * 64 + v(4)>>)
            \o B64Decode(SubSeq(text, 5, Len(text)))

\* The chunks of the ElevenLabs stream written one after the other.
RECURSIVE JoinChunks(_)
JoinChunks(chunks) ==
    IF chunks = <<>> THEN <<>> ELSE Head(chunks) \o JoinChunks(Tail(chunks))

\* Audio a provider can synthesize (raw bytes), nothing at all included, and
\* the ways the ElevenLabs stream can cut it into chunks.
ProviderAudio == {<<>>, <<255>>, <<102, 97>>, <<102, 97, 107>>, <<102, 97, 107, 101>>}
Chunkings(audio) ==
    IF audio = <<>> THEN {<<>>}
    ELSE {<<audio>>} \cup
         {<<SubSeq(audio, 1, k), SubSeq(audio, k + 1, Len(audio))>> : k \in 1..(Len(audio) - 1)}

\* The keyword arguments of text_to_audio_speechify with their defaults.
SpeechifyDefaults ==
    [voice_id |-> "scott", model |-> "simba-english", audio_format |-> "mp3", language |-> "en-US"]
SpeechifyParams == DOMAIN SpeechifyDefaults
NoArgs == [p \in SpeechifyParams |-> None("")]
Given(p, value) == [NoArgs EXCEPT ![p] = Some(value)]

\* The calls the callers make: with every argument left out, with the values
\* backend.py passes, with each of the formats, with another language, and with
\* a voice and model of the caller's own; and the fallback call of backend.py.
SpeechifyCalls ==
    {[fn |-> "text_to_audio_speechify", text |-> "Test text", given |-> g] :
        g \in {NoArgs, [p \in SpeechifyParams |-> Some(SpeechifyDefaults[p])],
               Given("audio_format", "wav"), Given("audio_format", "ogg"),
               Given("audio_format", "aac"), Given("language", "fr-FR"),
               [Given("voice_id", "henry") EXCEPT !["model"] = Some("simba-multilingual")]}}
ElevenLabsCalls ==
    {[fn |-> "text_to_audio_elevenlabs_sdk", text |-> "Test text",
      given |-> [voice_id |-> Some("JBFqnCBsd6RMkjVDRZzb"), model |-> Some("eleven_multilingual_v2"),
                 audio_format |-> Some("mp3_44100_128"), language |-> None("")]]}
\* The two calls of backend.py.
BackendCalls ==
    {[fn |-> "text_to_audio_speechify", text |-> "summary-a",
      given |-> [p \in SpeechifyParams |-> Some(SpeechifyDefaults[p])]]} \cup ElevenLabsCalls
NoCall == [fn |-> "", text |-> "", given |-> NoArgs]
NoFile == [dir |-> "", prefix |-> "", stamp |-> 0, ext |-> ""]

\* The value of parameter p the adapter works with: the caller's, or the default.
Resolve(given, p) == IF given[p].some THEN given[p].val ELSE SpeechifyDefaults[p]

\* Faulty variant: the language is not passed on, the provider gets the default.
SendsDefaultLanguage(call) ==
    [input |-> call.text,
     voice_id |-> Resolve(call.given, "voice_id"),
     model |-> Resolve(call.given, "model"),
     audio_format |-> Resolve(call.given, "audio_format"),
     language |-> SpeechifyDefaults.language]

\* client.tts.audio.speech(audio_format=, input=, language=, model=, options=, voice_id=)
SpeechifyRequest(call) ==
    [input |-> call.text,
     voice_id |-> Resolve(call.given, "voice_id"),
     model |-> Resolve(call.given, "model"),
     audio_format |-> Resolve(call.given, "audio_format"),
     language |-> Resolve(call.given, "language")]

\* client.text_to_speech.convert(text=, voice_id=, model_id=, output_format=)
ElevenLabsRequest(call) ==
    [input |-> call.text, voice_id |-> call.given.voice_id.val,
     model |-> call.given.model.val, audio_format |-> call.given.audio_format.val,
     language |-> ""]

\* Faulty variant: the file is named as the fallback adapter names its own.
NamedAsMp3(stamp, fmt) ==
    [dir |-> "audio", prefix |-> "speechify_tts", stamp |-> stamp, ext |-> "mp3"]

\* The file of a Speechify call: the prefix, the clock reading at the time of
\* writing, the requested format as extension.
SpeechifyFileName(stamp, fmt) ==
    [dir |-> "audio", prefix |-> "speechify_tts", stamp |-> stamp, ext |-> fmt]

\* The file of an ElevenLabs call.
ElevenLabsFileName(stamp) ==
    [dir |-> "audio", prefix |-> "tts", stamp |-> stamp, ext |-> "mp3"]

KeyOf(fn) == IF fn = "text_to_audio_speechify" THEN "SPEECHIFY_API_KEY" ELSE "ELEVEN_API_KEY"

\* A caller calls an adapter: without the credential the adapter raises
\* ValueError at once; with it the request goes to the provider.
Invoke(c, call) ==
    /\ a_pc[c] = "idle"
    /\ a_call' = [a_call EXCEPT ![c] = call]
    /\ IF env[KeyOf(call.fn)]
       THEN /\ a_sent' = [a_sent EXCEPT ![c] =
                            Append(@, IF call.fn = "text_to_audio_speechify"
                                      THEN SpeechifyRequest(call) ELSE ElevenLabsRequest(call))]
            /\ a_pc' = [a_pc EXCEPT ![c] = "waiting"]
            /\ UNCHANGED a_exc
       ELSE /\ a_exc' = [a_exc EXCEPT ![c] =
                           [type |-> "ValueError",
                            msg |-> IF call.fn = "text_to_audio_speechify"
                                    THEN "Speechify API key is required"
                                    ELSE "ElevenLabs API key is required"]]
            /\ a_pc' = [a_pc EXCEPT ![c] = "raised"]
            /\ UNCHANGED a_sent
    /\ UNCHANGED <<now, a_audio, a_payload, a_path, env, fs, hvars, fvars>>

\* A call made while no other call is under way or has been made: one adapter
\* call observed on its own.
InvokeAlone(c, call) ==
    /\ \A d \in Callers : a_pc[d] = "idle"
    /\ Invoke(c, call)

\* The provider answers with audio: Speechify with base64 text in audio_data,
\* ElevenLabs with a stream of chunks.
ProviderAnswers(c, audio) ==
    /\ a_pc[c] = "waiting"
    /\ a_audio' = [a_audio EXCEPT ![c] = audio]
    /\ \E payload \in (IF a_call[c].fn = "text_to_audio_speechify"
                       THEN {B64Encode(audio)} ELSE Chunkings(audio)) :
         a_payload' = [a_payload EXCEPT ![c] = payload]
    /\ a_pc' = [a_pc EXCEPT ![c] = "received"]
    /\ UNCHANGED <<now, a_call, a_sent, a_path, a_exc, env, fs, hvars, fvars>>

\* The provider call fails (transport, timeout, rejected parameters): the
\* exception passes through the adapter.
ProviderFails(c) ==
    /\ a_pc[c] = "waiting"
    /\ a_exc' = [a_exc EXCEPT ![c] = [type |-> "Exception", msg |-> "API Error"]]
    /\ a_pc' = [a_pc EXCEPT ![c] = "raised"]
    /\ UNCHANGED <<now, a_call, a_sent, a_audio, a_payload, a_path, env, fs, hvars, fvars>>

\* The bytes an adapter writes for the answer it received.
Decoded(fn, payload) ==
    IF fn = "text_to_audio_speechify" THEN B64Decode(payload) ELSE JoinChunks(payload)

\* The adapter decodes the answer, names the file after the clock and writes
\* it, and returns the path; an answer without audio is not accepted, and a
\* write that cannot complete raises IOError and leaves no file.
Persist(c) ==
    /\ a_pc[c] = "received"
    /\ LET bytes == Decoded(a_call[c].fn, a_payload[c])
           file == IF a_call[c].fn = "text_to_audio_speechify"
                   THEN SpeechifyFileName(now, Resolve(a_call[c].given, "audio_format"))
                   ELSE ElevenLabsFileName(now)
       IN IF bytes = <<>>
          THEN /\ a_exc' = [a_exc EXCEPT ![c] = [type |-> "Exception", msg |-> "no audio data"]]
               /\ a_pc' = [a_pc EXCEPT ![c] = "raised"]
               /\ UNCHANGED <<fs, a_path>>
          ELSE \/ /\ fs' = WriteFile(fs, file, bytes)
                  /\ a_path' = [a_path EXCEPT ![c] = file]
                  /\ a_pc' = [a_pc EXCEPT ![c] = "returned"]
                  /\ UNCHANGED a_exc
               \/ /\ a_exc' = [a_exc EXCEPT ![c] = [type |-> "IOError", msg |-> "write failed"]]
                  /\ a_pc' = [a_pc EXCEPT ![c] = "raised"]
                  /\ UNCHANGED <<fs, a_path>>
    /\ UNCHANGED <<now, a_call, a_sent, a_audio, a_payload, env, hvars, fvars>>

\* Time passes.
Tick ==
    /\ now < MaxTime
    /\ now' = now + 1
    /\ UNCHANGED <<a_pc, a_call, a_sent, a_audio, a_payload, a_path, a_exc>>
    /\ UNCHANGED <<dvars, fvars>>

AdapterIdle ==
    /\ now = 0
    /\ a_pc = [c \in Callers |-> "idle"]
    /\ a_call = [c \in Callers |-> NoCall]
    /\ a_sent = [c \in Callers |-> <<>>]
    /\ a_audio = [c \in Callers |-> <<>>]
    /\ a_payload = [c \in Callers |-> <<>>]
    /\ a_path = [c \in Callers |-> NoFile]
    /\ a_exc = [c \in Callers |-> NoExc]

\* State at the arrival of the requests: nothing has run, the output
\* directory holds no file of these requests, the filter is idle.
FilterIdle ==
    /\ voices = <<>>
    /\ f_gender = None(<<>>)
    /\ f_locale = None("")
    /\ f_tags = None({})
    /\ f_results = <<>>
    /\ f_pc = "idle"

Init ==
    /\ env \in [SPEECHIFY_API_KEY : BOOLEAN, ELEVEN_API_KEY : BOOLEAN]
    /\ pc = [r \in Reqs |-> "start"]
    /\ source_type \in [Reqs -> SourceTypes]
    /\ results = [r \in Reqs |-> {}]
    /\ news_summary = [r \in Reqs |-> ""]
    /\ audio_path = [r \in Reqs |-> NoPath]
    /\ raised = [r \in Reqs |-> NoExc]
    /\ response = [r \in Reqs |-> NoResponse]
    /\ calls = [r \in Reqs |-> <<>>]
    /\ failures = [r \in Reqs |-> <<>>]
    /\ outputs = [r \in Reqs |-> <<>>]
    /\ printed = [r \in Reqs |-> <<>>]
    /\ fs = <<>>
    /\ net = <<>>
    /\ FilterIdle
    /\ AdapterIdle

Next ==
    \E r \in Reqs :
        \/ ScrapeNews(r)
        \/ ScrapeReddit(r)
        \/ Summarize(r)
        \/ CallSpeechify(r)
        \/ CallElevenLabs(r)
        \/ Respond(r)
        \/ HandleException(r)

Spec == Init /\ [][Next]_vars

\* The handler of a request runs to its end: every call it makes returns (with a
\* result or an exception, a timeout included) and the event loop keeps
\* scheduling it.
StepOf(r) ==
    \/ ScrapeNews(r)
    \/ ScrapeReddit(r)
    \/ Summarize(r)
    \/ CallSpeechify(r)
    \/ CallElevenLabs(r)
    \/ Respond(r)
    \/ HandleException(r)

SpecFair == Init /\ [][Next]_vars /\ \A r \in Reqs : WF_vars(StepOf(r))

\* The filter alone: no request is being served.
InitFilter ==
    /\ env = [SPEECHIFY_API_KEY |-> FALSE, ELEVEN_API_KEY |-> FALSE]
    /\ pc = [r \in Reqs |-> "idle"]
    /\ source_type = [r \in Reqs |-> "none"]
    /\ results = [r \in Reqs |-> {}]
    /\ news_summary = [r \in Reqs |-> ""]
    /\ audio_path = [r \in Reqs |-> NoPath]
    /\ raised = [r \in Reqs |-> NoExc]
    /\ response = [r \in Reqs |-> NoResponse]
    /\ calls = [r \in Reqs |-> <<>>]
    /\ failures = [r \in Reqs |-> <<>>]
    /\ outputs = [r \in Reqs |-> <<>>]
    /\ printed = [r \in Reqs |-> <<>>]
    /\ fs = <<>>
    /\ net = <<>>
    /\ AdapterIdle
    /\ voices = <<>>
    /\ f_gender = None(<<>>)
    /\ f_locale = None("")
    /\ f_tags = None({})
    /\ f_results = <<>>
    /\ f_pc = "build"

NextFilter ==
    \/ \E v \in VoicePool : AddVoice(v)
    \/ \E g \in GenderArgs, l \in LocaleArgs, t \in TagArgs : CallFilter(g, l, t)

SpecFilter == InitFilter /\ [][NextFilter]_vars

\* The adapters called directly, one call at a time, with every kind of
\* argument and answer.
InitAdapter ==
    /\ env \in [SPEECHIFY_API_KEY : BOOLEAN, ELEVEN_API_KEY : BOOLEAN]
    /\ pc = [r \in Reqs |-> "idle"]
    /\ source_type = [r \in Reqs |-> "none"]
    /\ results = [r \in Reqs |-> {}]
    /\ news_summary = [r \in Reqs |-> ""]
    /\ audio_path = [r \in Reqs |-> NoPath]
    /\ raised = [r \in Reqs |-> NoExc]
    /\ response = [r \in Reqs |-> NoResponse]
    /\ calls = [r \in Reqs |-> <<>>]
    /\ failures = [r \in Reqs |-> <<>>]
    /\ outputs = [r \in Reqs |-> <<>>]
    /\ printed = [r \in Reqs |-> <<>>]
    /\ fs = <<>>
    /\ net = <<>>
    /\ FilterIdle
    /\ AdapterIdle

NextAdapter ==
    \/ \E c \in Callers, call \in SpeechifyCalls \cup ElevenLabsCalls : InvokeAlone(c, call)
    \/ \E c \in Callers, audio \in ProviderAudio : ProviderAnswers(c, audio)
    \/ \E c \in Callers : ProviderFails(c)
    \/ \E c \in Callers : Persist(c)
    \/ Tick

SpecAdapter == InitAdapter /\ [][NextAdapter]_vars

\* Concurrent requests: each caller makes a call of backend.py; the calls share
\* the output directory, the clock and the process environment, and nothing
\* orders the steps of one call against those of another.
NextConcurrent ==
    \/ \E c \in Callers, call \in BackendCalls : Invoke(c, call)
    \/ \E c \in Callers, audio \in AudioBytes \cup {<<>>} : ProviderAnswers(c, audio)
    \/ \E c \in Callers : ProviderFails(c)
    \/ \E c \in Callers : Persist(c)
    \/ Tick

SpecConcurrent == InitAdapter /\ [][NextConcurrent]_vars

\* ================================================================ claims
\* What the logs of a request say.
Invoked(r, op) == \E i \in DOMAIN calls[r] : calls[r][i].op = op
FailedIn(r, provider) == \E i \in DOMAIN failures[r] : failures[r][i].provider = provider
SucceededIn(r, provider) == \E i \in DOMAIN outputs[r] : outputs[r][i].provider = provider
OutputOf(r, provider) == (CHOOSE o \in {outputs[r][i] : i \in DOMAIN outputs[r]} : o.provider = provider).bytes
TextGiven(r, op) == (CHOOSE c \in {calls[r][i] : i \in DOMAIN calls[r]} : c.op = op).text
FilesOf(r) == {p \in DOMAIN fs : p.req = r}
Served(r) == pc[r] = "done" /\ response[r].status = 200 /\ response[r].media = "audio/mpeg"

\* C1: first success wins. The secondary provider is invoked only after the
\* primary has failed, never after it succeeded; no third provider (tts_to_audio)
\* is ever invoked; the answer carries exactly the bytes returned by the
\* lowest-index provider that succeeded; and a primary failure followed by a
\* secondary success is printed, not surfaced: the caller gets status 200.
C1_FirstSuccessWins ==
    \A r \in Reqs :
        /\ SucceededIn(r, "speechify") => ~Invoked(r, "text_to_audio_elevenlabs_sdk")
        /\ Invoked(r, "text_to_audio_elevenlabs_sdk") => FailedIn(r, "speechify")
        /\ ~Invoked(r, "tts_to_audio")
        /\ Len(outputs[r]) <= 1
        /\ (pc[r] = "done" /\ SucceededIn(r, "speechify")) =>
              (Served(r) /\ response[r].body = OutputOf(r, "speechify"))
        /\ (pc[r] = "done" /\ FailedIn(r, "speechify") /\ SucceededIn(r, "elevenlabs")) =>
              /\ Served(r)
              /\ response[r].body = OutputOf(r, "elevenlabs")
              /\ response[r].detail = ""
              /\ raised[r] = NoExc
              /\ printed[r] = <<failures[r][1].exc.msg>>

\* C1 witness: the primary failed, the secondary succeeded and the request was
\* answered with the secondary's audio.
C1_Witness ==
    \E r \in Reqs :
        /\ pc[r] = "done"
        /\ FailedIn(r, "speechify")
        /\ SucceededIn(r, "elevenlabs")
        /\ response[r].body = <<2, 3>>

\* C2: exhaustion. When both providers of the chain have failed, the request
\* fails (the exception is on its way to, or has been turned into, HTTP 500)
\* and the output directory holds no file written by the request.
C2_ExhaustionFails ==
    \A r \in Reqs :
        (FailedIn(r, "speechify") /\ FailedIn(r, "elevenlabs")) =>
            /\ pc[r] \in {"except", "done"}
            /\ raised[r] # NoExc
            /\ FilesOf(r) = {}
            /\ audio_path[r] = NoPath
            /\ pc[r] = "done" => response[r].status = 500

\* C2 witness: a request answered after both providers failed.
C2_Witness ==
    \E r \in Reqs :
        /\ pc[r] = "done"
        /\ FailedIn(r, "speechify")
        /\ FailedIn(r, "elevenlabs")

\* C3 as stated: after an IOError raised while persisting the result of a
\* provider, no further provider is invoked and the request fails.
C3_IOErrorIsFatal ==
    \A r \in Reqs :
        \A i \in DOMAIN failures[r] :
            failures[r][i].kind = "IOError" =>
                /\ failures[r][i].provider = "speechify" => ~Invoked(r, "text_to_audio_elevenlabs_sdk")
                /\ pc[r] = "done" => response[r].status = 500

\* C3 amended: an IOError raised while persisting the primary's result is caught
\* by the inner except like any other failure, and the secondary is invoked with
\* the same text; only an IOError of the last provider (the secondary) is fatal:
\* no provider is invoked after it and the request ends with HTTP 500 carrying it.
C3_IOErrorFatalOnlyForLastProvider ==
    \A r \in Reqs :
        \A i \in DOMAIN failures[r] :
            failures[r][i].kind = "IOError" =>
                IF failures[r][i].provider = "speechify"
                THEN \/ pc[r] = "secondary" /\ raised[r] = NoExc
                     \/ /\ Invoked(r, "text_to_audio_elevenlabs_sdk")
                        /\ TextGiven(r, "text_to_audio_elevenlabs_sdk") = TextGiven(r, "text_to_audio_speechify")
                ELSE /\ i = Len(failures[r])
                     /\ calls[r][Len(calls[r])].op = "text_to_audio_elevenlabs_sdk"
                     /\ pc[r] \in {"except", "done"}
                     /\ raised[r] = failures[r][i].exc
                     /\ pc[r] = "done" => (response[r].status = 500 /\ response[r].detail = failures[r][i].exc.msg)

\* C3 witness: the primary's write failed with IOError and the secondary then
\* delivered the audio of the request.
C3_Witness ==
    \E r \in Reqs :
        /\ failures[r] # <<>>
        /\ failures[r][1].kind = "IOError"
        /\ failures[r][1].provider = "speechify"
        /\ SucceededIn(r, "elevenlabs")
        /\ Served(r)

\* C4: a finished request has exactly one of two outcomes: status 200 with the
\* non-empty bytes of the existing audio file, or status 500 whose detail is the
\* last failure met (after provider calls: the failure of the last provider
\* called, the secondary); it never answers 200 without audio.
C4_AudioOrTerminalError ==
    \A r \in Reqs :
        pc[r] = "done" =>
            \/ /\ Served(r)
               /\ audio_path[r] \in DOMAIN fs
               /\ response[r].body = fs[audio_path[r]]
               /\ response[r].body # <<>>
               /\ raised[r] = NoExc
            \/ /\ response[r].status = 500
               /\ raised[r] # NoExc
               /\ response[r].detail = raised[r].msg
               /\ outputs[r] = <<>>
               /\ failures[r] # <<>> =>
                     /\ failures[r][Len(failures[r])].provider = "elevenlabs"
                     /\ response[r].detail = failures[r][Len(failures[r])].exc.msg

\* C4 witness: a request that ended in the terminal error, after two provider
\* failures with different messages.
C4_Witness ==
    \E r \in Reqs :
        /\ pc[r] = "done"
        /\ response[r].status = 500
        /\ Len(failures[r]) = 2
        /\ failures[r][1].kind = "ProviderError"
        /\ failures[r][2].kind = "ConfigError"

\* C5: the failure kind is not judged. After a ConfigError as after a
\* ProviderError of the primary, the handler is about to invoke, or has invoked,
\* the secondary with the text the primary was given, and nothing was raised or
\* answered in between.
C5_FailureKindNotJudged ==
    \A r \in Reqs :
        \A i \in DOMAIN failures[r] :
            (failures[r][i].provider = "speechify" /\ failures[r][i].kind \in {"ConfigError", "ProviderError"}) =>
                \/ /\ pc[r] = "secondary"
                   /\ raised[r] = NoExc
                   /\ response[r] = NoResponse
                   /\ news_summary[r] = TextGiven(r, "text_to_audio_speechify")
                \/ /\ Invoked(r, "text_to_audio_elevenlabs_sdk")
                   /\ TextGiven(r, "text_to_audio_elevenlabs_sdk") = TextGiven(r, "text_to_audio_speechify")
                   /\ calls[r][Len(calls[r])].op = "text_to_audio_elevenlabs_sdk"

\* C5 witness: the secondary was invoked after a ProviderError of the primary.
C5_Witness ==
    \E r \in Reqs :
        /\ failures[r] # <<>>
        /\ failures[r][1].provider = "speechify"
        /\ failures[r][1].kind = "ProviderError"
        /\ Invoked(r, "text_to_audio_elevenlabs_sdk")

\* C6: without a Speechify credential the primary adapter fails with the
\* ValueError "Speechify API key is required", which is not the error of a
\* failed provider call, and the request has made no call to Speechify.
C6_ConfigErrorBeforeNetwork ==
    \A r \in Reqs :
        /\ (Invoked(r, "text_to_audio_speechify") /\ ~env.SPEECHIFY_API_KEY) =>
              /\ failures[r] # <<>>
              /\ failures[r][1].provider = "speechify"
              /\ failures[r][1].kind = "ConfigError"
        /\ \A i \in DOMAIN failures[r] :
              (failures[r][i].provider = "speechify" /\ failures[r][i].kind = "ConfigError") =>
                  /\ failures[r][i].exc.type = "ValueError"
                  /\ failures[r][i].exc.msg = "Speechify API key is required"
                  /\ ~env.SPEECHIFY_API_KEY
                  /\ ~\E j \in DOMAIN net : net[j].provider = "speechify" /\ net[j].req = r
        /\ \A i \in DOMAIN failures[r] :
              (failures[r][i].provider = "speechify" /\ failures[r][i].kind = "ProviderError") =>
                  /\ failures[r][i].exc.msg # "Speechify API key is required"
                  /\ \E j \in DOMAIN net : net[j].provider = "speechify" /\ net[j].req = r

\* C6 witness: the primary adapter was invoked without a credential and failed.
C6_Witness ==
    \E r \in Reqs :
        /\ Invoked(r, "text_to_audio_speechify")
        /\ ~env.SPEECHIFY_API_KEY
        /\ failures[r] # <<>>
        /\ failures[r][1].kind = "ConfigError"

\* ------------------------------------------------------- claims on the filter
Range(seq) == {seq[i] : i \in DOMAIN seq}
NoGender == None(<<>>)
NoLocale == None("")
NoTags == None({})

\* a is b with some entries left out, the order kept.
RECURSIVE IsSubseq(_, _)
IsSubseq(a, b) ==
    IF a = <<>> THEN TRUE
    ELSE IF b = <<>> THEN FALSE
    ELSE IF Head(a) = Head(b) THEN IsSubseq(Tail(a), Tail(b))
    ELSE IsSubseq(a, Tail(b))

\* The voice list with every model renamed to its position (voice, model).
Relabel(vs) ==
    [i \in DOMAIN vs |->
        [vs[i] EXCEPT !.models = [j \in DOMAIN vs[i].models |-> [vs[i].models[j] EXCEPT !.name = <<i, j>>]]]]

\* No model name occurs under two voices of the list.
NamesDistinctAcrossVoices(vs) ==
    \A i, j \in DOMAIN vs : i # j => Range(ModelNames(vs[i])) \cap Range(ModelNames(vs[j])) = {}

\* The intersection law on the names returned for the list vs.
IntersectionLaw(vs, g, l, t) ==
    Range(filter_voice_models(vs, g, l, t)) =
        Range(filter_voice_models(vs, g, NoLocale, NoTags))
        \cap Range(filter_voice_models(vs, NoGender, l, NoTags))
        \cap Range(filter_voice_models(vs, NoGender, NoLocale, t))

\* The result of the call is contained, in order, in the result of the call
\* with any criterion left out.
OmissionNeverNarrows ==
    /\ IsSubseq(f_results, filter_voice_models(voices, NoGender, f_locale, f_tags))
    /\ IsSubseq(f_results, filter_voice_models(voices, f_gender, NoLocale, f_tags))
    /\ IsSubseq(f_results, filter_voice_models(voices, f_gender, f_locale, NoTags))
    /\ IsSubseq(f_results, filter_voice_models(voices, NoGender, NoLocale, NoTags))

\* C7 as stated: the names returned for combined criteria are the intersection
\* of the names returned for each criterion alone, and leaving a criterion out
\* never narrows the result.
C7_NamesAreIntersection ==
    f_pc = "called" =>
        /\ f_results = filter_voice_models(voices, f_gender, f_locale, f_tags)
        /\ IntersectionLaw(voices, f_gender, f_locale, f_tags)
        /\ OmissionNeverNarrows

\* C7 amended: the intersection law holds for the entries of the result taken
\* as (voice, model) positions, hence for the returned names whenever no model
\* name is shared between two voices of the list; and leaving a criterion out
\* never narrows the result.
C7_AndSemantics ==
    f_pc = "called" =>
        /\ f_results = filter_voice_models(voices, f_gender, f_locale, f_tags)
        /\ IntersectionLaw(Relabel(voices), f_gender, f_locale, f_tags)
        /\ NamesDistinctAcrossVoices(voices) => IntersectionLaw(voices, f_gender, f_locale, f_tags)
        /\ OmissionNeverNarrows

\* C7 witness: a call with all three criteria on two voices with distinct model
\* names, which keeps one voice and drops the other that the tags alone keep.
C7_Witness ==
    /\ f_pc = "called"
    /\ Truthy(f_gender, <<>>) /\ Truthy(f_locale, "") /\ Truthy(f_tags, {})
    /\ Len(voices) = 2
    /\ NamesDistinctAcrossVoices(voices)
    /\ f_results # <<>>
    /\ Len(filter_voice_models(voices, NoGender, NoLocale, f_tags)) > Len(f_results)

\* Two strings are the same up to the case of their letters.
CasePairs == {<<"m", "M">>, <<"a", "A">>, <<"f", "F">>, <<"e", "E">>}
Letters == {"m", "M", "a", "A", "f", "F", "e", "E"}
SameLetter(a, b) == a = b \/ <<a, b>> \in CasePairs \/ <<b, a>> \in CasePairs
SameIgnoringCase(s, t) == Len(s) = Len(t) /\ \A i \in 1..Len(s) : SameLetter(s[i], t[i])
CaseVariants(s) == {t \in [1..Len(s) -> Letters] : SameIgnoringCase(s, t)}

\* C8: the result does not depend on the letter case of the gender argument,
\* and with a gender supplied a voice contributes its models exactly when its
\* gender is the requested one up to letter case.
C8_GenderCaseInsensitive ==
    (f_pc = "called" /\ Truthy(f_gender, <<>>)) =>
        /\ \A g \in CaseVariants(f_gender.val) :
              filter_voice_models(voices, Some(g), f_locale, f_tags) = f_results
        /\ \A i \in DOMAIN voices :
              /\ ~GenderMismatch(voices[i], f_gender) <=> SameIgnoringCase(voices[i].gender, f_gender.val)
              /\ filter_voice_models(<<voices[i]>>, f_gender, NoLocale, NoTags) =
                    IF SameIgnoringCase(voices[i].gender, f_gender.val) THEN ModelNames(voices[i]) ELSE <<>>

\* C8 witness: a call with gender "MA" on a list holding a voice of gender "Ma"
\* and a voice of gender "fe", both with models; only the first contributes.
C8_Witness ==
    /\ f_pc = "called"
    /\ f_gender = Some(<<"M", "A">>)
    /\ ~Truthy(f_locale, "") /\ ~Truthy(f_tags, {})
    /\ Len(voices) = 2
    /\ voices[1].gender = <<"M", "a">> /\ voices[1].models # <<>>
    /\ voices[2].gender = <<"f", "e">> /\ voices[2].models # <<>>
    /\ f_results = ModelNames(voices[1])

\* The model names of the voices whose tag set includes every requested tag.
RECURSIVE NamesOfVoicesWithAllTags(_, _)
NamesOfVoicesWithAllTags(vs, requested) ==
    IF vs = <<>> THEN <<>>
    ELSE (IF requested \subseteq Head(vs).tags THEN ModelNames(Head(vs)) ELSE <<>>)
         \o NamesOfVoicesWithAllTags(Tail(vs), requested)

\* C9: tag subset law. With tags supplied, a voice passes the tag test exactly
\* when every requested tag is among its tags, whatever else it carries; a voice
\* missing a requested tag contributes nothing to the result of the call; and
\* with tags as the only criterion the result is the names of the voices that
\* carry all requested tags.
C9_TagSubsetLaw ==
    (f_pc = "called" /\ f_tags.some) =>
        /\ \A i \in DOMAIN voices :
              /\ ~TagsMismatch(voices[i], f_tags) <=> f_tags.val \subseteq voices[i].tags
              /\ ~(f_tags.val \subseteq voices[i].tags) =>
                    filter_voice_models(<<voices[i]>>, f_gender, f_locale, f_tags) = <<>>
        /\ (~Truthy(f_gender, <<>>) /\ ~Truthy(f_locale, "")) =>
              f_results = NamesOfVoicesWithAllTags(voices, f_tags.val)

\* C9 witness: a call with tags ["timbre:deep"] alone; the first voice lacks the
\* tag, the second carries it next to an unrelated tag and is the one returned.
C9_Witness ==
    /\ f_pc = "called"
    /\ f_tags = Some({"timbre:deep"})
    /\ ~Truthy(f_gender, <<>>) /\ ~Truthy(f_locale, "")
    /\ Len(voices) = 2
    /\ voices[1].tags = {"accent:american"} /\ voices[1].models # <<>>
    /\ voices[2].tags = {"timbre:deep", "accent:american"} /\ voices[2].models # <<>>
    /\ f_results = ModelNames(voices[2])

\* The locales a voice supports through any of its models.
LocalesOf(voice) ==
    UNION {{lang.locale : lang \in Range(m.languages)} : m \in Range(voice.models)}

\* C10: locale match. With a locale supplied, a voice passes the locale test
\* exactly when the locale is, as the very same string, among the locales of the
\* languages of its models; a voice without models or without languages does not
\* pass and contributes nothing.
C10_LocaleMatch ==
    (f_pc = "called" /\ Truthy(f_locale, "")) =>
        \A i \in DOMAIN voices :
            /\ Qualifies(voices[i], NoGender, f_locale, NoTags) <=> f_locale.val \in LocalesOf(voices[i])
            /\ filter_voice_models(<<voices[i]>>, NoGender, f_locale, NoTags) =
                  IF f_locale.val \in LocalesOf(voices[i]) THEN ModelNames(voices[i]) ELSE <<>>
            /\ (\A j \in DOMAIN voices[i].models : voices[i].models[j].languages = <<>>) =>
                  /\ ~Qualifies(voices[i], f_gender, f_locale, f_tags)
                  /\ filter_voice_models(<<voices[i]>>, f_gender, f_locale, f_tags) = <<>>

\* C10 witness: a call with locale "en-US" alone on a voice whose second model
\* lists it as its second language and a voice that supports only "en-us"; the
\* first is returned with both its models.
C10_Witness ==
    /\ f_pc = "called"
    /\ f_locale = Some("en-US")
    /\ ~Truthy(f_gender, <<>>) /\ ~Truthy(f_tags, {})
    /\ Len(voices) = 2
    /\ voices[1].models = <<Model("n1", <<"fr-FR">>), Model("n2", <<"en-us", "en-US">>)>>
    /\ voices[2].models = <<Model("n3", <<"en-us">>)>>
    /\ f_results = <<"n1", "n2">>

\* ----------------------------------- claims on the order of the handler
\* The provider adapters invoked by a request, in order.
ProviderOps == {"text_to_audio_speechify", "text_to_audio_elevenlabs_sdk", "tts_to_audio"}
RECURSIVE ProviderCalls(_)
ProviderCalls(log) ==
    IF log = <<>> THEN <<>>
    ELSE (IF Head(log).op \in ProviderOps THEN <<Head(log).op>> ELSE <<>>) \o ProviderCalls(Tail(log))

\* C15: provider attempts of a request happen in the fixed order, one after the
\* other: the providers invoked so far are a prefix of (Speechify, ElevenLabs),
\* so none is invoked twice; the i-th failure is logged before the (i+1)-th
\* provider is invoked, and a step of the handler invokes at most one provider
\* and only when every earlier provider call has returned a failure.
C15_ProvidersInOrderOnce ==
    [][\A r \in Reqs :
          LET before == ProviderCalls(calls[r])
              after == ProviderCalls(calls'[r])
          IN /\ after \in {<<>>, <<"text_to_audio_speechify">>,
                           <<"text_to_audio_speechify", "text_to_audio_elevenlabs_sdk">>}
             /\ Len(after) <= Len(before) + 1
             /\ Len(after) = Len(before) + 1 =>
                   /\ Len(failures[r]) = Len(before)
                   /\ outputs[r] = <<>>
                   /\ Len(failures'[r]) + Len(outputs'[r]) = Len(after)]_vars

\* C15 witness: both providers were invoked, the second after the first failed.
C15_Witness ==
    \E r \in Reqs :
        /\ ProviderCalls(calls[r]) = <<"text_to_audio_speechify", "text_to_audio_elevenlabs_sdk">>
        /\ Len(failures[r]) = 1
        /\ Len(outputs[r]) = 1

\* The names of the collaborators a request has invoked, in order.
Ops(log) == [i \in 1..Len(log) |-> log[i].op]

PipelineOrder ==
    <<"scrape_news", "scrape_reddit_topics", "generate_broadcast_news",
      "text_to_audio_speechify", "text_to_audio_elevenlabs_sdk">>

\* The failures of the acquisition and summarization stages.
EarlyFailures ==
    {"scrape_news failed", "scrape_reddit_topics failed", "generate_broadcast_news failed"}

\* The sources the request asks for.
Wanted(st) ==
    (IF st \in {"news", "both"} THEN {"news"} ELSE {}) \cup
    (IF st \in {"reddit", "both"} THEN {"reddit"} ELSE {})

\* C19: the stages of a request run in the order acquire, summarize,
\* synthesize, each collaborator at most once; the news scraper is invoked
\* exactly for the source types news and both, the social scraper exactly for
\* reddit and both; a provider is invoked only after every wanted scraper and
\* the summarizer returned without error; a failure of an early stage ends the
\* request with HTTP 500 and without a provider call.
C19_PipelineOrder ==
    \A r \in Reqs :
        LET ops == Ops(calls[r])
            acquired == pc[r] \notin {"start", "reddit"}
            early == raised[r].msg \in EarlyFailures
        IN /\ IsSubseq(ops, PipelineOrder)
           /\ Invoked(r, "scrape_news") => "news" \in Wanted(source_type[r])
           /\ Invoked(r, "scrape_reddit_topics") => "reddit" \in Wanted(source_type[r])
           /\ (pc[r] # "start" /\ "news" \in Wanted(source_type[r])) => Invoked(r, "scrape_news")
           /\ (acquired /\ ~early /\ "reddit" \in Wanted(source_type[r])) =>
                 Invoked(r, "scrape_reddit_topics")
           /\ ProviderCalls(calls[r]) # <<>> =>
                 /\ ~early
                 /\ results[r] = Wanted(source_type[r])
                 /\ Invoked(r, "generate_broadcast_news")
                 /\ news_summary[r] \in Summaries
           /\ early =>
                 /\ ProviderCalls(calls[r]) = <<>>
                 /\ FilesOf(r) = {}
                 /\ \A i \in DOMAIN net : net[i].req # r
                 /\ pc[r] \in {"except", "done"}
                 /\ pc[r] = "done" => response[r].status = 500

\* C19 witness: the summarizer failed after both scrapers ran, and the request
\* was answered with HTTP 500 without a provider call.
C19_Witness ==
    \E r \in Reqs :
        /\ pc[r] = "done"
        /\ Ops(calls[r]) = <<"scrape_news", "scrape_reddit_topics", "generate_broadcast_news">>
        /\ raised[r].msg = "generate_broadcast_news failed"
        /\ response[r].status = 500

\* ------------------------------------------ claims on termination
\* The fixed provider order of the handler.
ProviderOrder == <<"text_to_audio_speechify", "text_to_audio_elevenlabs_sdk">>

\* The state of the dispatch of a request: not started until the first provider
\* is invoked, trying while a provider remains to be invoked, succeeded once a
\* provider returned audio, failed once the last failure left the dispatch.
DispatchState(r) ==
    IF outputs[r] # <<>> THEN "succeeded"
    ELSE IF failures[r] # <<>> /\ pc[r] \notin {"primary", "secondary"} THEN "failed"
    ELSE IF ProviderCalls(calls[r]) = <<>> THEN "not-started"
    ELSE "trying"

Terminal(r) == DispatchState(r) \in {"succeeded", "failed"}

\* C17: a dispatch that has started (the handler is about to invoke the first
\* provider) reaches succeeded or failed, given that every provider call returns;
\* it never invokes more providers than the order holds; and a step taken in a
\* terminal state leaves the state, the provider calls and the logged outcome
\* as they are.
C17_DispatchTerminates ==
    /\ \A r \in Reqs : (pc[r] = "primary") ~> Terminal(r)
    /\ [][\A r \in Reqs :
             /\ Len(ProviderCalls(calls'[r])) <= Len(ProviderOrder)
             /\ Terminal(r) =>
                   /\ DispatchState(r)' = DispatchState(r)
                   /\ ProviderCalls(calls'[r]) = ProviderCalls(calls[r])
                   /\ outputs'[r] = outputs[r]
                   /\ failures'[r] = failures[r]]_vars

\* C17 witness: a dispatch that failed after invoking every provider, and was
\* answered.
C17_Witness ==
    \E r \in Reqs :
        /\ pc[r] = "done"
        /\ DispatchState(r) = "failed"
        /\ Len(ProviderCalls(calls[r])) = Len(ProviderOrder)

\* ------------------------------------------ claims on the filter's result
\* A criterion counts as supplied when its argument is given and not empty.
Supplied(arg, empty) == arg.some /\ arg.val # empty

\* The voices the criteria select, stated from the criteria's meaning.
Selected(v, gender, locale, tags) ==
    /\ Supplied(gender, <<>>) => SameIgnoringCase(v.gender, gender.val)
    /\ Supplied(locale, "") => locale.val \in LocalesOf(v)
    /\ Supplied(tags, {}) => tags.val \subseteq v.tags

\* The names of all models of the selected voices among the first n voices, in
\* the order of the voice list, and their number.
RECURSIVE NamesOfSelected(_, _, _, _, _)
NamesOfSelected(vs, n, gender, locale, tags) ==
    IF n = 0 THEN <<>>
    ELSE NamesOfSelected(vs, n - 1, gender, locale, tags) \o
         (IF Selected(vs[n], gender, locale, tags)
          THEN [j \in 1..Len(vs[n].models) |-> vs[n].models[j].name]
          ELSE <<>>)

RECURSIVE ModelsOfSelected(_, _, _, _, _)
ModelsOfSelected(vs, n, gender, locale, tags) ==
    IF n = 0 THEN 0
    ELSE ModelsOfSelected(vs, n - 1, gender, locale, tags) +
         (IF Selected(vs[n], gender, locale, tags) THEN Len(vs[n].models) ELSE 0)

\* C16: the result lists, voice by voice in the order of the list and model by
\* model in the order within the voice, the name of every model of every
\* qualifying voice, a model that lacks the requested locale included, and a
\* name as often as it occurs; it holds no name that occurs only in voices that
\* do not qualify; its length is the number of models of the qualifying voices.
C16_AllModelsOfQualifyingVoices ==
    f_pc = "called" =>
        /\ f_results = NamesOfSelected(voices, Len(voices), f_gender, f_locale, f_tags)
        /\ Len(f_results) = ModelsOfSelected(voices, Len(voices), f_gender, f_locale, f_tags)
        /\ \A k \in DOMAIN f_results :
              \E i \in DOMAIN voices :
                  /\ Selected(voices[i], f_gender, f_locale, f_tags)
                  /\ \E j \in DOMAIN voices[i].models : voices[i].models[j].name = f_results[k]

\* C16 witness: a call with locale "en-US" on two voices that both hold a model
\* n1 without that locale and a model n2 with it: all four names are returned,
\* n1 twice.
C16_Witness ==
    /\ f_pc = "called"
    /\ f_locale = Some("en-US")
    /\ Len(voices) = 2
    /\ f_results = <<"n1", "n2", "n1", "n2">>
    /\ \A i \in DOMAIN voices : "en-US" \notin {l.locale : l \in Range(voices[i].models[1].languages)}

\* ------------------------------------------------ claims on the adapters
Returned(c) == a_pc[c] = "returned"
Primary(c) == a_call[c].fn = "text_to_audio_speechify"
Secondary(c) == a_call[c].fn = "text_to_audio_elevenlabs_sdk"

\* A path as the caller sees it, piece by piece, and the test result.endswith.
PathText(file) == <<file.dir, "/", file.prefix, "_", file.stamp, ".", file.ext>>
EndsWith(text, suffix) ==
    /\ Len(suffix) <= Len(text)
    /\ SubSeq(text, Len(text) - Len(suffix) + 1, Len(text)) = suffix

\* The format a caller of the primary adapter asked for: the one it gave, mp3
\* when it gave none.
RequestedFormat(c) ==
    IF a_call[c].given.audio_format.some THEN a_call[c].given.audio_format.val ELSE "mp3"

\* C11: the path returned by a successful primary synthesis with requested
\* format f ends with "." followed by f, for f among mp3, wav, ogg and aac.
C11_PathEndsWithFormat ==
    \A c \in Callers :
        (Returned(c) /\ Primary(c)) =>
            /\ RequestedFormat(c) \in {"mp3", "wav", "ogg", "aac"}
            /\ EndsWith(PathText(a_path[c]), <<".", RequestedFormat(c)>>)

\* C11 witness: a primary call that asked for wav has returned a path.
C11_Witness ==
    \E c \in Callers :
        /\ Returned(c) /\ Primary(c)
        /\ a_call[c].given.audio_format = Some("wav")
        /\ a_path[c].ext = "wav"

\* C12: every path an adapter has returned names a file that exists and is
\* not empty, and reading it yields the bytes a call that returned this path
\* wrote: the audio its provider synthesized, which for the primary provider is
\* the audio behind the base64 text of the answer; this for every answer the
\* adapter accepts, whatever the length of the audio.
C12_ReReadYieldsWhatWasWritten ==
    \A c \in Callers :
        Returned(c) =>
            /\ a_path[c] \in DOMAIN fs
            /\ fs[a_path[c]] # <<>>
            /\ \E d \in Callers :
                  /\ Returned(d) /\ a_path[d] = a_path[c]
                  /\ fs[a_path[c]] = a_audio[d]
                  /\ Primary(d) => B64Encode(fs[a_path[c]]) = a_payload[d]

\* C12 witness: a primary call returned a path for audio whose last base64
\* group is padded, after an earlier full group.
C12_Witness ==
    \E c \in Callers :
        /\ Returned(c) /\ Primary(c)
        /\ Len(a_audio[c]) = 4
        /\ a_payload[c][Len(a_payload[c])] = B64Pad
        /\ fs[a_path[c]] = a_audio[c]

\* What the provider must have received for a call of the primary adapter:
\* each value as the caller gave it, the documented default where it gave none.
Expected(call) ==
    [input |-> call.text,
     voice_id |-> IF call.given.voice_id.some THEN call.given.voice_id.val ELSE "scott",
     model |-> IF call.given.model.some THEN call.given.model.val ELSE "simba-english",
     audio_format |-> IF call.given.audio_format.some THEN call.given.audio_format.val ELSE "mp3",
     language |-> IF call.given.language.some THEN call.given.language.val ELSE "en-US"]

\* C13 as stated: every invocation of the primary adapter calls the provider
\* exactly once, with exactly the caller's values.
C13_ExactlyOnePerInvocation ==
    \A c \in Callers :
        (Primary(c) /\ a_pc[c] # "idle") => a_sent[c] = <<Expected(a_call[c])>>

\* C13, amended: an invocation of the primary adapter that finds its credential
\* calls the provider exactly once, with the caller's text, voice, model, format
\* and language, the documented default standing in for a value left out and
\* for no other; an invocation without the credential does not call the
\* provider at all.
C13_RequestIsTheCallers ==
    \A c \in Callers :
        (Primary(c) /\ a_pc[c] # "idle") =>
            IF env.SPEECHIFY_API_KEY
            THEN a_sent[c] = <<Expected(a_call[c])>>
            ELSE a_sent[c] = <<>> /\ a_pc[c] = "raised" /\ a_exc[c].type = "ValueError"

\* C13 witness: a call with a voice and model of the caller's own and the other
\* values left out has gone through to a returned path.
C13_Witness ==
    \E c \in Callers :
        /\ Returned(c) /\ Primary(c)
        /\ a_call[c].given.voice_id = Some("henry")
        /\ ~a_call[c].given.language.some
        /\ Len(a_sent[c]) = 1
        /\ a_sent[c][1].voice_id = "henry"
        /\ a_sent[c][1].language = "en-US"

\* The first n chunks of a stream, one after the other.
RECURSIVE InArrivalOrder(_, _)
InArrivalOrder(chunks, n) ==
    IF n = 0 THEN <<>> ELSE InArrivalOrder(chunks, n - 1) \o chunks[n]

\* C18: the file of a successful secondary call holds the chunks of the
\* provider's stream one after the other in the order of arrival, none left
\* out, repeated or moved; the file of a successful primary call holds the
\* bytes whose base64 encoding is the text the provider answered with.
C18_DecodingKeepsContentAndOrder ==
    \A c \in Callers :
        Returned(c) =>
            /\ Secondary(c) =>
                  fs[a_path[c]] = InArrivalOrder(a_payload[c], Len(a_payload[c]))
            /\ Primary(c) =>
                  /\ B64Encode(fs[a_path[c]]) = a_payload[c]
                  /\ Len(a_payload[c]) = 4 * ((Len(fs[a_path[c]]) + 2) \div 3)

\* C18 witness: a secondary call whose stream came in two chunks of different
\* length has returned its path.
C18_Witness ==
    \E c \in Callers :
        /\ Returned(c) /\ Secondary(c)
        /\ Len(a_payload[c]) = 2
        /\ Len(a_payload[c][1]) # Len(a_payload[c][2])
        /\ fs[a_path[c]] = a_payload[c][1] \o a_payload[c][2]

\* ------------------------------------------- claims on concurrent callers
\* C14: concurrent calls that write to the same output directory never produce
\* the same file name: two callers that have both been given a path hold
\* different paths, and the file behind each path holds the bytes of the
\* caller's own request.
C14_NamesUniqueUnderConcurrency ==
    \A c \in Callers :
        Returned(c) =>
            /\ \A d \in Callers \ {c} : Returned(d) => a_path[d] # a_path[c]
            /\ fs[a_path[c]] = Decoded(a_call[c].fn, a_payload[c])

====
